---- MODULE Spec2Model ----
(***************************************************************************)
(* Briefly (src/writing_bot.py): the rule registry, analyze_text, the 11   *)
(* checkers and suggesters, generate_improved_text and its two repairs.    *)
(*                                                                         *)
(* A text is a sequence of tokens.  A token is the period ".", one space   *)
(* " ", or a word of the Lexicon (a word or a short phrase, written as the *)
(* characters it stands for).  In every text of the model a word token has *)
(* a separator, the start or the end of the text on each side, so a token  *)
(* sequence denotes exactly one Python string (the tokens concatenated),   *)
(* and split, strip, join and the prefix of the repairs keep that form.    *)
(* A regular expression of the source is modelled by the set of Lexicon    *)
(* words in which it finds a match; the patterns that look across words    *)
(* (".*", lookahead) are modelled position by position.                    *)
(***************************************************************************)
EXTENDS Integers, Sequences, FiniteSets, TLC

VARIABLES rules, pc, report, improved, applied, memo, ncalls, calls

vars == <<rules, pc, report, improved, applied, memo, ncalls, calls>>

\* Bounds of the model: the number of period-delimited pieces of an input
\* text, and the number of analyze_text calls on one Briefly.
MaxPieces == 4

MaxCalls == 3

---------------------------------------------------------------------------
\* Tokens and the Python string primitives the code uses on them.

Period == "."

Space == " "

RecommendationColon == "Recommendation:"

\* The words of the model, each standing for its own characters.
Lexicon ==
    {"data", "recommend", "think", "decision", "pros and cons", "very",
     "summary", "context", "let me", "example", "therefore", "first",
     RecommendationColon}

\* len(tok): the number of characters of a token.
CharLen(tok) ==
    CASE tok = Period -> 1
      [] tok = Space -> 1
      [] tok = "data" -> 4
      [] tok = "recommend" -> 9
      [] tok = "think" -> 5
      [] tok = "decision" -> 8
      [] tok = "pros and cons" -> 13
      [] tok = "very" -> 4
      [] tok = "summary" -> 7
      [] tok = "context" -> 7
      [] tok = "let me" -> 6
      [] tok = "example" -> 7
      [] tok = "therefore" -> 9
      [] tok = "first" -> 5
      [] tok = RecommendationColon -> 15

\* The number of spaces inside a token (a phrase is several words).
InnerSpaces(tok) ==
    CASE tok = "pros and cons" -> 2
      [] tok = "let me" -> 1
      [] OTHER -> 0

\* str.lower() of a token.
Lower(tok) ==
    IF tok = RecommendationColon THEN "recommendation:" ELSE tok

\* text.split('.'): the pieces between periods, the empty ones included;
\* the empty text splits into one empty piece.
\* SplitFrom(text, i) is the pieces of text from position i on: the piece up
\* to the next period, then the pieces after that period.
RECURSIVE SplitFrom(_, _)
SplitFrom(text, i) ==
    IF \E j \in i..Len(text) : text[j] = Period
    THEN LET j == CHOOSE j \in i..Len(text) :
                      /\ text[j] = Period
                      /\ \A k \in i..(j - 1) : text[k] # Period
         IN  <<SubSeq(text, i, j - 1)>> \o SplitFrom(text, j + 1)
    ELSE <<SubSeq(text, i, Len(text))>>

split(text) == SplitFrom(text, 1)

\* s.lstrip() and s.rstrip() on spaces, and s.strip().
RECURSIVE LStrip(_)
LStrip(s) ==
    IF s # <<>> /\ Head(s) = Space THEN LStrip(Tail(s)) ELSE s

RECURSIVE RStrip(_)
RStrip(s) ==
    IF s # <<>> /\ s[Len(s)] = Space THEN RStrip(SubSeq(s, 1, Len(s) - 1)) ELSE s

strip(s) == RStrip(LStrip(s))

\* [s.strip() for s in text.split('.') if s.strip()]
RECURSIVE StripNonEmpty(_)
StripNonEmpty(pieces) ==
    IF pieces = <<>> THEN <<>>
    ELSE LET s == strip(Head(pieces))
         IN  (IF s # <<>> THEN <<s>> ELSE <<>>) \o StripNonEmpty(Tail(pieces))

sentences_of(text) == StripNonEmpty(split(text))

\* '. '.join(sentences)
RECURSIVE join(_)
join(sentences) ==
    IF sentences = <<>> THEN <<>>
    ELSE IF Len(sentences) = 1 THEN Head(sentences)
    ELSE Head(sentences) \o <<Period, Space>> \o join(Tail(sentences))

\* text.endswith('.')
endswith_period(text) == text # <<>> /\ text[Len(text)] = Period

\* len(text.split()): the maximal runs of non-space characters.  A token that
\* is not a space starts a word when it is first or follows a space, and each
\* space inside a phrase starts one more.
\* WordsIn(text, lo, hi) counts the words that start at positions lo..hi,
\* half by half.
RECURSIVE WordsIn(_, _, _)
WordsIn(text, lo, hi) ==
    IF lo > hi THEN 0
    ELSE IF lo = hi
    THEN IF text[lo] = Space THEN 0
         ELSE InnerSpaces(text[lo])
              + (IF lo = 1 \/ text[lo - 1] = Space THEN 1 ELSE 0)
    ELSE LET mid == (lo + hi) \div 2
         IN  WordsIn(text, lo, mid) + WordsIn(text, mid + 1, hi)

WordCount(text) == WordsIn(text, 1, Len(text))

\* s[:n]: the first n characters, as (token, characters kept) pairs.
RECURSIVE Truncate(_, _)
Truncate(s, n) ==
    IF s = <<>> \/ n <= 0 THEN <<>>
    ELSE LET k == CharLen(Head(s))
         IN  IF k <= n THEN << <<Head(s), k>> >> \o Truncate(Tail(s), n - k)
             ELSE << <<Head(s), n>> >>

\* re.search(pattern, s): some word of s holds a match of the pattern.
Search(pattern, s) == \E i \in 1..Len(s) : s[i] \in pattern

\* re.findall(pattern, s): the matching words, in order.
FindAll(pattern, s) == SelectSeq(s, LAMBDA tok : tok \in pattern)

\* any(re.search(pattern, s) for pattern in patterns)
SearchAny(patterns, s) == \E p \in 1..Len(patterns) : Search(patterns[p], s)

---------------------------------------------------------------------------
\* Issues.  An issue string is its message, the excerpt of the text the
\* f-string embeds (as (token, characters kept) pairs) and the number it embeds.

Whole(s) == [i \in 1..Len(s) |-> <<s[i], CharLen(s[i])>>]

Issue(msg, excerpt, n) == [msg |-> msg, excerpt |-> excerpt, n |-> n]

RECURSIVE Concat(_)
Concat(ss) == IF ss = <<>> THEN <<>> ELSE Head(ss) \o Concat(Tail(ss))

---------------------------------------------------------------------------
\* _check_super_specific_how

\* No word of the Lexicon starts one of the three vague-advice patterns.
vague_patterns == <<{}, {}, {}>>

\* \b(example|instance|case study) finds "example"; "first" is not "first,".
specific_indicators == <<{}, {}, {"example"}, {}>>

SpecificThreshold == 100

\* The slip fires at the threshold itself.
_check_super_specific_how_inclusive(text) ==
    LET has_specific_content == SearchAny(specific_indicators, text)
    IN  IF ~has_specific_content /\ WordCount(text) >= SpecificThreshold
        THEN <<Issue("Text lacks specific implementation details - consider adding 'how-to' elements",
                     <<>>, 0)>>
        ELSE <<>>

_check_super_specific_how(text) ==
    LET vague ==
            Concat([p \in 1..Len(vague_patterns) |->
                LET matches == FindAll(vague_patterns[p], text)
                IN  IF matches # <<>>
                    THEN <<Issue("Potential vague advice without specific implementation",
                                 Whole(<<matches[1]>>), 0)>>
                    ELSE <<>>])
        has_specific_content == SearchAny(specific_indicators, text)
    IN  vague \o
        (IF ~has_specific_content /\ WordCount(text) > SpecificThreshold
         THEN <<Issue("Text lacks specific implementation details - consider adding 'how-to' elements",
                      <<>>, 0)>>
         ELSE <<>>)

---------------------------------------------------------------------------
\* _check_backstory

\* \b(let me|i want to|...) finds "let me" and
\* \b(context|background|history|overview|introduction) finds "context".
backstory_indicators == <<{"let me"}, {"context"}, {}>>

\* The slip scans every sentence, whatever their number.
_check_backstory_whole_text(text) ==
    LET sentences == split(text)
    IN  Concat([i \in 1..Len(sentences) |->
            IF SearchAny(backstory_indicators, sentences[i])
            THEN <<Issue("Potential backstory in opening",
                         Whole(strip(sentences[i])), 0)>>
            ELSE <<>>])

_check_backstory(text) ==
    LET sentences == split(text)
        first_third ==
            IF Len(sentences) > 3
            THEN SubSeq(sentences, 1, Len(sentences) \div 3)
            ELSE sentences
    IN  Concat([i \in 1..Len(first_third) |->
            IF SearchAny(backstory_indicators, first_third[i])
            THEN <<Issue("Potential backstory in opening",
                         Whole(strip(first_third[i])), 0)>>
            ELSE <<>>])

---------------------------------------------------------------------------
\* _check_clear_recommendations

\* \b(pros and cons|advantages and disadvantages)\b(?!.*recommend): some
\* "pros and cons" with no "recommend" (any case, no word boundary) after it.
ProsConsNotFollowedByRecommend(text) ==
    \E i \in 1..Len(text) :
        /\ text[i] = "pros and cons"
        /\ \A j \in (i + 1)..Len(text) :
               text[j] \notin {"recommend", RecommendationColon}

\* \b(pros?|advantages?)\b.*\b(cons?|disadvantages?)\b
ProsThenCons(text) == Search({"pros and cons"}, text)

\* \b(recommend|suggest|think|believe)\b
checker_recommendation_verbs == {"recommend", "think"}

_check_clear_recommendations(text) ==
    LET msg == "Potentially unclear recommendation - consider stating your position more directly"
        \* No word of the Lexicon is a hedge of the first pattern or an
        \* "on one hand ... however" of the second.
        unclear ==
            <<Search({}, text), Search({}, text), ProsConsNotFollowedByRecommend(text)>>
    IN  Concat([p \in 1..Len(unclear) |->
                  IF unclear[p] THEN <<Issue(msg, <<>>, 0)>> ELSE <<>>])
        \o
        (IF ProsThenCons(text) /\ ~Search(checker_recommendation_verbs, text)
         THEN <<Issue("Pros/cons list detected without clear recommendation - state your position upfront",
                      <<>>, 0)>>
         ELSE <<>>)

---------------------------------------------------------------------------
\* _check_bottom_line_first

\* \b(recommend|suggest|conclude|believe|think|decision) has no closing \b, so
\* it also finds the "Recommendation:" of the repair prefix.  No word of the
\* Lexicon matches the second or third pattern ("summary" alone is not
\* "in summary").
conclusion_indicators ==
    <<{"recommend", "think", "decision", RecommendationColon}, {}, {}>>

\* The early return of _check_bottom_line_first: len(sentences) < 3.
MinSentences == 3

bottom_line_first_third(text) ==
    LET sentences == split(text)
    IN  SubSeq(sentences, 1, Len(sentences) \div 3)

\* The slip has no early return.
_check_bottom_line_first_unguarded(text) ==
    LET first_third == bottom_line_first_third(text)
        has_early_conclusion ==
            \E i \in 1..Len(first_third) :
                SearchAny(conclusion_indicators, first_third[i])
    IN  IF ~has_early_conclusion
        THEN <<Issue("Main conclusion or recommendation may be buried - consider leading with the key takeaway",
                     <<>>, 0)>>
        ELSE <<>>

_check_bottom_line_first(text) ==
    LET sentences == split(text)
        first_third == bottom_line_first_third(text)
        has_early_conclusion ==
            \E i \in 1..Len(first_third) :
                SearchAny(conclusion_indicators, first_third[i])
    IN  IF Len(sentences) < MinSentences THEN <<>>
        ELSE IF ~has_early_conclusion
        THEN <<Issue("Main conclusion or recommendation may be buried - consider leading with the key takeaway",
                     <<>>, 0)>>
        ELSE <<>>

---------------------------------------------------------------------------
\* _check_adequate_context

\* \b(context|background|premise|assumption) finds "context".
context_indicators == <<{}, {"context"}, {}>>

ContextGate == 200

ContextThreshold == 300

\* The slip fires at the threshold itself.
_check_adequate_context_inclusive(text) ==
    LET word_count == WordCount(text)
        has_context == SearchAny(context_indicators, text)
    IN  IF word_count > ContextGate /\ ~has_context /\ word_count >= ContextThreshold
        THEN <<Issue("Long text may lack sufficient context or examples for reader comprehension",
                     <<>>, 0)>>
        ELSE <<>>

_check_adequate_context(text) ==
    LET word_count == WordCount(text)
        has_context == SearchAny(context_indicators, text)
    IN  IF word_count > ContextGate /\ ~has_context /\ word_count > ContextThreshold
        THEN <<Issue("Long text may lack sufficient context or examples for reader comprehension",
                     <<>>, 0)>>
        ELSE <<>>

---------------------------------------------------------------------------
\* _check_sentence_structure

\* re.match at the start of the sentence: no word of the Lexicon opens weakly.
weak_openings == <<{}, {}, {}, {}>>

\* \b(it|this|that|these|those)\b
pronouns == {}

LongSentenceWords == 30

ExcerptChars == 50

sentence_structure_issues(sentence) ==
    LET n == WordCount(sentence)
        weak == \E p \in 1..Len(weak_openings) :
                    sentence # <<>> /\ sentence[1] \in weak_openings[p]
        refs == Len(FindAll(pronouns, sentence))
    IN  (IF n > LongSentenceWords
         THEN <<Issue("Very long sentence", Truncate(sentence, ExcerptChars), n)>>
         ELSE <<>>)
        \o (IF weak
            THEN <<Issue("Consider stronger sentence opening",
                         Truncate(sentence, ExcerptChars), 0)>>
            ELSE <<>>)
        \o (IF refs >= 2 /\ refs > 2
            THEN <<Issue("Multiple unclear pronoun references",
                         Truncate(sentence, ExcerptChars), 0)>>
            ELSE <<>>)

_check_sentence_structure(text) ==
    LET sentences == sentences_of(text)
    IN  Concat([i \in 1..Len(sentences) |-> sentence_structure_issues(sentences[i])])

---------------------------------------------------------------------------
\* _check_active_voice

\* No word of the Lexicon is an auxiliary followed by a participle.
passive_patterns == <<{}, {}, {}>>

PassiveExcerptChars == 60

_check_active_voice(text) ==
    LET sentences == split(text)
        lowered(i) == [k \in 1..Len(strip(sentences[i])) |-> Lower(strip(sentences[i])[k])]
    IN  Concat([i \in 1..Len(sentences) |->
            IF SearchAny(passive_patterns, lowered(i))
            THEN <<Issue("Passive voice detected",
                         Truncate(lowered(i), PassiveExcerptChars), 0)>>
            ELSE <<>>])

---------------------------------------------------------------------------
\* _check_logical_flow

\* \b(first|second|third|next|then|furthermore|moreover|however|therefore|
\* consequently)\b finds "first" and "therefore".
transition_indicators == <<{"first", "therefore"}>>

\* \b(1\.|2\.|3\.|first|second|third|-|\*)\b finds "first".
structure_marks == {"first"}

\* \b(first|next|then|finally|overall|in summary)\b finds "first"; no word of
\* the Lexicon matches the first pattern.
topic_indicators == <<{}, {"first"}>>

FlowThreshold == 150

TopicSentenceWords == 15

\* text.split('\n\n'), stripped, the empty ones dropped: no token is a
\* newline, so the text is one paragraph.
paragraphs_of(text) == IF strip(text) # <<>> THEN <<strip(text)>> ELSE <<>>

\* The loop over the paragraphs, from paragraph i on; it stops at the first
\* paragraph that lacks a topic sentence.
RECURSIVE topic_sentence_issues(_, _)
topic_sentence_issues(paragraphs, i) ==
    IF i > Len(paragraphs) THEN <<>>
    ELSE LET sentences == sentences_of(paragraphs[i])
             first_sentence == sentences[1]
         IN  IF /\ Len(sentences) > 1
                /\ ~SearchAny(topic_indicators, first_sentence)
                /\ WordCount(first_sentence) > TopicSentenceWords
             THEN <<Issue("Paragraph may lack a clear topic sentence", <<>>, i)>>
             ELSE topic_sentence_issues(paragraphs, i + 1)

_check_logical_flow(text) ==
    LET has_transitions == SearchAny(transition_indicators, text)
        has_structure == Search(structure_marks, text)
    IN  (IF WordCount(text) > FlowThreshold /\ ~(has_transitions \/ has_structure)
         THEN <<Issue("Long text lacks clear logical structure - consider adding transitions or organizing in numbered points",
                      <<>>, 0)>>
         ELSE <<>>)
        \o topic_sentence_issues(paragraphs_of(text), 1)

---------------------------------------------------------------------------
\* _check_conciseness

\* The 11 redundant phrases with the message each reports; no word of the
\* Lexicon is one of them.
redundancies ==
    <<[pattern |-> {}, msg |-> "Redundant phrase found - consider using 'essential' instead"],
      [pattern |-> {}, msg |-> "Redundant phrase found - consider using 'finished' instead"],
      [pattern |-> {}, msg |-> "Redundant phrase found - consider using 'first' instead"],
      [pattern |-> {}, msg |-> "Redundant phrase found - consider using 'when' instead"],
      [pattern |-> {}, msg |-> "Redundant phrase found - consider using 'to' instead"],
      [pattern |-> {}, msg |-> "Redundant phrase found - consider using 'if' instead"],
      [pattern |-> {}, msg |-> "Redundant phrase found - consider using 'because' instead"],
      [pattern |-> {}, msg |-> "Redundant phrase found - consider using 'to' instead"],
      [pattern |-> {}, msg |-> "Redundant phrase found - consider using 'experience' instead"],
      [pattern |-> {}, msg |-> "Redundant phrase found - consider using 'planning' instead"],
      [pattern |-> {}, msg |-> "Redundant phrase found - consider using 'near' instead"]>>

\* \b(very|really|quite|rather|somewhat|quite a bit)\b
filler_patterns == <<{"very"}>>

\* filler_count > word_count * 0.02, in hundredths.
FillerPercent == 2

RECURSIVE CountAll(_, _)
CountAll(patterns, s) ==
    IF patterns = <<>> THEN 0
    ELSE Len(FindAll(Head(patterns), s)) + CountAll(Tail(patterns), s)

_check_conciseness(text) ==
    LET filler_count == CountAll(filler_patterns, text)
        word_count == WordCount(text)
    IN  Concat([p \in 1..Len(redundancies) |->
                  IF Search(redundancies[p].pattern, text)
                  THEN <<Issue(redundancies[p].msg, <<>>, 0)>>
                  ELSE <<>>])
        \o
        (IF filler_count * 100 > word_count * FillerPercent
         THEN <<Issue("Excessive use of filler words - consider removing some",
                      <<>>, filler_count)>>
         ELSE <<>>)

---------------------------------------------------------------------------
\* _check_clarity_simplicity

\* No word of the Lexicon is jargon or a formal phrase.
jargon_patterns == <<{}, {}, {}, {}, {}, {}>>

formal_phrases ==
    <<[pattern |-> {}, msg |-> "Formal phrase could be simplified: consider using 'to'"],
      [pattern |-> {}, msg |-> "Formal phrase could be simplified: consider using 'about'"],
      [pattern |-> {}, msg |-> "Formal phrase could be simplified: consider using 'if'"],
      [pattern |-> {}, msg |-> "Formal phrase could be simplified: consider using 'to'"],
      [pattern |-> {}, msg |-> "Formal phrase could be simplified: consider using 'that is'"],
      [pattern |-> {}, msg |-> "Formal phrase could be simplified: consider using 'compared to'"]>>

\* \b(and|but|however|although|while|whereas)\b finds the "and" of
\* "pros and cons".
clause_words == {"pros and cons"}

MaxClauses == 2

ComplexSentenceWords == 25

_check_clarity_simplicity(text) ==
    LET sentences == sentences_of(text)
        complex(i) ==
            /\ Len(FindAll(clause_words, sentences[i])) > MaxClauses
            /\ WordCount(sentences[i]) > ComplexSentenceWords
    IN  Concat([p \in 1..Len(jargon_patterns) |->
                  LET matches == FindAll(jargon_patterns[p], text)
                  IN  IF matches # <<>>
                      THEN <<Issue("Jargon detected - consider simpler alternatives",
                                   Whole(<<matches[1]>>), 0)>>
                      ELSE <<>>])
        \o
        (IF \E i \in 1..Len(sentences) : complex(i)
         THEN <<Issue("Complex sentence structure - consider breaking into simpler sentences",
                      <<>>, 0)>>
         ELSE <<>>)
        \o
        Concat([p \in 1..Len(formal_phrases) |->
                  IF Search(formal_phrases[p].pattern, text)
                  THEN <<Issue(formal_phrases[p].msg, <<>>, 0)>>
                  ELSE <<>>])

---------------------------------------------------------------------------
\* _check_eliminate_clutter

\* \b(very|really|quite|rather|somewhat|pretty|fairly|relatively)\b finds
\* "very"; no word of the Lexicon matches the other two patterns.
clutter_words == <<{"very"}, {}, {}>>

\* No word of the Lexicon is followed by a word in "ly" or is a redundant
\* compound.
weak_adverbs == <<{}, {}, {}>>

redundant_phrases == <<{}, {}, {}, {}, {}, {}>>

\* clutter_count > word_count * 0.03, in hundredths.
ClutterPercent == 3

_check_eliminate_clutter(text) ==
    LET clutter_count == CountAll(clutter_words, text)
        word_count == WordCount(text)
    IN  (IF clutter_count * 100 > word_count * ClutterPercent
         THEN <<Issue("High clutter word density - remove unnecessary qualifiers",
                      <<>>, clutter_count)>>
         ELSE <<>>)
        \o
        (IF SearchAny(weak_adverbs, text)
         THEN <<Issue("Weak adverb + adjective combination detected - strengthen the word itself",
                      <<>>, 0)>>
         ELSE <<>>)
        \o
        (IF SearchAny(redundant_phrases, text)
         THEN <<Issue("Redundant phrase detected - remove unnecessary word", <<>>, 0)>>
         ELSE <<>>)

---------------------------------------------------------------------------
\* The suggesters: fixed lists, whatever the text and the issues.

_suggest_super_specific_how(text, issues) ==
    <<"Add specific steps, examples, or concrete implementation details",
      "Replace vague advice with actionable instructions (e.g., 'Here's how to...' instead of 'You should...')",
      "Include time estimates, specific tools, or measurable outcomes">>

_suggest_cut_backstory(text, issues) ==
    <<"Consider starting closer to the main point or key insight",
      "Ask: 'Does this opening sentence directly serve my reader's immediate need?'",
      "Try starting with the insight or recommendation, then provide minimal necessary context">>

_suggest_clear_recommendations(text, issues) ==
    <<"State your recommendation upfront (e.g., 'I recommend X because...')",
      "If presenting options, clearly indicate which you prefer and why",
      "Replace hedging language with confident statements where appropriate">>

_suggest_bottom_line_first(text, issues) ==
    <<"Start with: 'Bottom line: [your main point]'",
      "Or begin with: 'I recommend [action] because [key reason]'",
      "Move supporting details and context after the main point">>

_suggest_adequate_context(text, issues) ==
    <<"Add context if readers might need more background to understand",
      "Use examples, analogies, or case studies to illustrate key points",
      "Consider adding 'Context:' or 'Background:' sections for complex topics">>

_suggest_sentence_structure(text, issues) ==
    <<"Break sentences longer than 25-30 words into shorter, clearer sentences",
      "Start sentences with strong subjects and active verbs when possible",
      "Avoid starting with 'There is/are' - use more direct constructions",
      "Make pronoun references clear and specific">>

_suggest_active_voice(text, issues) ==
    <<"Rewrite passive voice to active voice for stronger, clearer writing",
      "Put the doer of the action before the verb when possible",
      "Example: 'The report was written by John' -> 'John wrote the report'">>

_suggest_logical_flow(text, issues) ==
    <<"Use transition words to guide readers through your argument",
      "Start each paragraph with a clear topic sentence",
      "Organize ideas in logical order: most important first, supporting details second",
      "Consider using numbered lists or bullet points for clarity">>

_suggest_conciseness(text, issues) ==
    <<"Remove redundant phrases and unnecessary words",
      "Replace wordy constructions with shorter alternatives",
      "Avoid filler words like 'very', 'really', 'quite' when possible",
      "Example: 'in order to' -> 'to', 'due to the fact that' -> 'because'">>

_suggest_clarity_simplicity(text, issues) ==
    <<"Replace jargon with simple, clear words",
      "Use 'use' instead of 'utilize', 'help' instead of 'facilitate'",
      "Break complex sentences into shorter, clearer ones",
      "Avoid unnecessarily formal language - write as you speak",
      "Example: 'utilize' -> 'use', 'facilitate' -> 'help', 'leverage' -> 'use'">>

_suggest_eliminate_clutter(text, issues) ==
    <<"Remove clutter words: 'very', 'really', 'quite', 'rather', 'somewhat'",
      "Strengthen weak words instead of adding qualifiers",
      "Eliminate redundant phrases like 'advance warning' or 'new innovation'",
      "Example: 'very good' -> 'excellent', 'really important' -> 'crucial'",
      "Zinsser's rule: Every word must earn its place">>

---------------------------------------------------------------------------
\* The Registry: self.rules, in insertion order.  The "check" and "suggest"
\* of a rule are bound methods; Check and Suggest dispatch on the rule name.

\* RegistryBottomLineEarlier is the Registry with bottom_line_first
\* registered before clear_recommendations.
RegistryEntry(name, description) == [name |-> name, description |-> description]

RegistryBottomLineEarlier ==
    <<RegistryEntry("super_specific_how",
                    "Focus on actionable 'how' rather than 'what' and 'why'"),
      RegistryEntry("cut_backstory",
                    "Start right before you get eaten by the bear - cut unnecessary backstory"),
      RegistryEntry("bottom_line_first",
                    "Lead with conclusions, then provide context (Minto Pyramid Principle)"),
      RegistryEntry("clear_recommendations",
                    "Avoid communication surprises - be clear about your point of view"),
      RegistryEntry("adequate_context",
                    "Over-communicate - ensure sufficient context without overwhelming"),
      RegistryEntry("sentence_structure",
                    "Use clear, concise sentences with proper structure (Casagrande principles)"),
      RegistryEntry("active_voice",
                    "Prefer active voice over passive voice for clarity and directness"),
      RegistryEntry("logical_flow",
                    "Structure arguments logically with clear hierarchy (Minto Pyramid)"),
      RegistryEntry("conciseness",
                    "Eliminate unnecessary words and redundant phrases"),
      RegistryEntry("clarity_simplicity",
                    "Write clearly and simply - avoid jargon and complex constructions (Zinsser)"),
      RegistryEntry("eliminate_clutter",
                    "Remove unnecessary words, adverbs, and complexity (Zinsser principles)")>>

Registry ==
    <<[name |-> "super_specific_how",
       description |-> "Focus on actionable 'how' rather than 'what' and 'why'"],
      [name |-> "cut_backstory",
       description |-> "Start right before you get eaten by the bear - cut unnecessary backstory"],
      [name |-> "clear_recommendations",
       description |-> "Avoid communication surprises - be clear about your point of view"],
      [name |-> "bottom_line_first",
       description |-> "Lead with conclusions, then provide context (Minto Pyramid Principle)"],
      [name |-> "adequate_context",
       description |-> "Over-communicate - ensure sufficient context without overwhelming"],
      [name |-> "sentence_structure",
       description |-> "Use clear, concise sentences with proper structure (Casagrande principles)"],
      [name |-> "active_voice",
       description |-> "Prefer active voice over passive voice for clarity and directness"],
      [name |-> "logical_flow",
       description |-> "Structure arguments logically with clear hierarchy (Minto Pyramid)"],
      [name |-> "conciseness",
       description |-> "Eliminate unnecessary words and redundant phrases"],
      [name |-> "clarity_simplicity",
       description |-> "Write clearly and simply - avoid jargon and complex constructions (Zinsser)"],
      [name |-> "eliminate_clutter",
       description |-> "Remove unnecessary words, adverbs, and complexity (Zinsser principles)"]>>

Check(rule_name, text) ==
    CASE rule_name = "super_specific_how" -> _check_super_specific_how(text)
      [] rule_name = "cut_backstory" -> _check_backstory(text)
      [] rule_name = "clear_recommendations" -> _check_clear_recommendations(text)
      [] rule_name = "bottom_line_first" -> _check_bottom_line_first(text)
      [] rule_name = "adequate_context" -> _check_adequate_context(text)
      [] rule_name = "sentence_structure" -> _check_sentence_structure(text)
      [] rule_name = "active_voice" -> _check_active_voice(text)
      [] rule_name = "logical_flow" -> _check_logical_flow(text)
      [] rule_name = "conciseness" -> _check_conciseness(text)
      [] rule_name = "clarity_simplicity" -> _check_clarity_simplicity(text)
      [] rule_name = "eliminate_clutter" -> _check_eliminate_clutter(text)

Suggest(rule_name, text, issues) ==
    CASE rule_name = "super_specific_how" -> _suggest_super_specific_how(text, issues)
      [] rule_name = "cut_backstory" -> _suggest_cut_backstory(text, issues)
      [] rule_name = "clear_recommendations" -> _suggest_clear_recommendations(text, issues)
      [] rule_name = "bottom_line_first" -> _suggest_bottom_line_first(text, issues)
      [] rule_name = "adequate_context" -> _suggest_adequate_context(text, issues)
      [] rule_name = "sentence_structure" -> _suggest_sentence_structure(text, issues)
      [] rule_name = "active_voice" -> _suggest_active_voice(text, issues)
      [] rule_name = "logical_flow" -> _suggest_logical_flow(text, issues)
      [] rule_name = "conciseness" -> _suggest_conciseness(text, issues)
      [] rule_name = "clarity_simplicity" -> _suggest_clarity_simplicity(text, issues)
      [] rule_name = "eliminate_clutter" -> _suggest_eliminate_clutter(text, issues)

---------------------------------------------------------------------------
\* analyze_text

\* Before any call there is no report; a report always has 11 results.
NoReport ==
    [original_text |-> <<>>, analysis |-> <<>>, suggestions |-> <<>>,
     improved_text |-> <<>>]

\* The results dict analyze_text starts from; the stale one keeps the
\* suggestions list of the call before.
NewResultsStale(text) ==
    [original_text |-> text, analysis |-> <<>>,
     suggestions |-> report.suggestions, improved_text |-> text]

NewResults(text) ==
    [original_text |-> text, analysis |-> <<>>, suggestions |-> <<>>,
     improved_text |-> text]

\* The body of the loop over self.rules.items().  results["analysis"] is a
\* dict keyed by the rule name; the names of the Registry are distinct, so it
\* is the sequence of its entries in insertion order.  Two slips of it: passed
\* computed as len(issues) <= 1, and the suggester called without `if issues`.
AnalyzeRulePassedOffByOne(results, rule, text) ==
    LET issues == Check(rule.name, text)
    IN  [results EXCEPT
            !.analysis = Append(@, [rule_name |-> rule.name,
                                    passed |-> (Len(issues) <= 1),
                                    issues |-> issues,
                                    description |-> rule.description]),
            !.suggestions = IF issues # <<>>
                            THEN @ \o Suggest(rule.name, text, issues)
                            ELSE @]

AnalyzeRuleAlwaysSuggests(results, rule, text) ==
    LET issues == Check(rule.name, text)
    IN  [results EXCEPT
            !.analysis = Append(@, [rule_name |-> rule.name,
                                    passed |-> (Len(issues) = 0),
                                    issues |-> issues,
                                    description |-> rule.description]),
            !.suggestions = @ \o Suggest(rule.name, text, issues)]

AnalyzeRule(results, rule, text) ==
    LET issues == Check(rule.name, text)
    IN  [results EXCEPT
            !.analysis = Append(@, [rule_name |-> rule.name,
                                    passed |-> (Len(issues) = 0),
                                    issues |-> issues,
                                    description |-> rule.description]),
            !.suggestions = IF issues # <<>>
                            THEN @ \o Suggest(rule.name, text, issues)
                            ELSE @]

RECURSIVE AnalyzeLoop(_, _, _, _)
AnalyzeLoop(results, registry, i, text) ==
    IF i > Len(registry) THEN results
    ELSE AnalyzeLoop(AnalyzeRule(results, registry[i], text), registry, i + 1, text)

analyze_text(registry, text) == AnalyzeLoop(NewResults(text), registry, 1, text)

---------------------------------------------------------------------------
\* The two repairs.

\* \b(recommend|suggest|conclude|believe|think) finds "recommend", "think" and
\* the "Recommendation:" of the prefix; \b(summary|bottom line|point is) finds
\* "summary".
conclusion_patterns == <<{"recommend", "think", RecommendationColon}, {"summary"}>>

\* The slip inserts the conclusion at index 0.
MoveToFront(sentences, i) ==
    <<sentences[i]>>
        \o SubSeq(sentences, 1, i - 1)
        \o SubSeq(sentences, i + 1, Len(sentences))

\* sentences.pop(i) then sentences.insert(1, conclusion), i counted from 1.
MoveToSecond(sentences, i) ==
    <<sentences[1], sentences[i]>>
        \o SubSeq(sentences, 2, i - 1)
        \o SubSeq(sentences, i + 1, Len(sentences))

\* The loop over enumerate(sentences), from sentence i on (counted from 1):
\* a match at index 0 or 1 changes nothing and the loop goes on; the first
\* match at a later index is moved and the loop breaks.
RECURSIVE MoveConclusion(_, _)
MoveConclusion(sentences, i) ==
    IF i > Len(sentences) THEN sentences
    ELSE IF SearchAny(conclusion_patterns, sentences[i]) /\ i - 1 > 1
    THEN MoveToSecond(sentences, i)
    ELSE MoveConclusion(sentences, i + 1)

\* The guard of the repair: len(sentences) > 2.
RepairMinSentences == 2

_apply_bottom_line_first(text) ==
    LET sentences == sentences_of(text)
        moved == IF Len(sentences) > RepairMinSentences
                 THEN MoveConclusion(sentences, 1)
                 ELSE sentences
    IN  join(moved) \o (IF endswith_period(text) THEN <<Period>> ELSE <<>>)

\* \b(recommend|suggest|believe|think we should)\b: "think" alone and
\* "Recommendation:" do not match.
repair_recommendation_verbs == {"recommend"}

_apply_clear_recommendations(text) ==
    IF ~Search(repair_recommendation_verbs, text) /\ ProsThenCons(text)
    THEN <<RecommendationColon, Space>> \o text
    ELSE text

---------------------------------------------------------------------------
\* generate_improved_text

\* Whether the loop body transforms the text for this entry; the slip
\* transforms it for every entry.
RepairsAlways(rule_analysis) == TRUE

Repairs(rule_analysis) ==
    ~rule_analysis.passed /\ rule_analysis.issues # <<>>

\* The body of the loop over analysis["analysis"].items(): st.text is the
\* local `text`, st.applied the repairs called so far with their argument
\* and result.  The slip has `else` for the `elif` of bottom_line_first.
GenerateRuleElse(st, rule_analysis) ==
    IF Repairs(rule_analysis)
    THEN IF rule_analysis.rule_name = "clear_recommendations"
         THEN [text |-> _apply_clear_recommendations(st.text),
               applied |-> Append(st.applied,
                   [rule_name |-> "clear_recommendations", input |-> st.text,
                    output |-> _apply_clear_recommendations(st.text)])]
         ELSE [text |-> _apply_bottom_line_first(st.text),
               applied |-> Append(st.applied,
                   [rule_name |-> rule_analysis.rule_name, input |-> st.text,
                    output |-> _apply_bottom_line_first(st.text)])]
    ELSE st

GenerateRule(st, rule_analysis) ==
    IF Repairs(rule_analysis)
    THEN IF rule_analysis.rule_name = "bottom_line_first"
         THEN [text |-> _apply_bottom_line_first(st.text),
               applied |-> Append(st.applied,
                   [rule_name |-> "bottom_line_first", input |-> st.text,
                    output |-> _apply_bottom_line_first(st.text)])]
         ELSE IF rule_analysis.rule_name = "clear_recommendations"
         THEN [text |-> _apply_clear_recommendations(st.text),
               applied |-> Append(st.applied,
                   [rule_name |-> "clear_recommendations", input |-> st.text,
                    output |-> _apply_clear_recommendations(st.text)])]
         ELSE st
    ELSE st

RECURSIVE GenerateLoop(_, _, _)
GenerateLoop(st, analysis, i) ==
    IF i > Len(analysis) THEN st
    ELSE GenerateLoop(GenerateRule(st, analysis[i]), analysis, i + 1)

generate_improved_text(analysis) ==
    GenerateLoop([text |-> analysis.original_text, applied |-> <<>>],
                 analysis.analysis, 1)

---------------------------------------------------------------------------
\* The input texts.

\* The pieces a text is made of: nothing, one word, or a space and a word.
Phrases ==
    {<<>>, <<"data">>, <<"recommend">>, <<"think">>, <<"decision">>,
     <<"pros and cons">>, <<"very">>, <<Space, "data">>}

RECURSIVE JoinPieces(_)
JoinPieces(pieces) ==
    IF Len(pieces) = 1 THEN Head(pieces)
    ELSE Head(pieces) \o <<Period>> \o JoinPieces(Tail(pieces))

\* Every text of at most MaxPieces pieces, each a phrase.
Texts ==
    {JoinPieces(ps) : ps \in UNION {[1..k -> Phrases] : k \in 1..MaxPieces}}

\* The texts of the repeated calls.
ProbeTexts ==
    {<<>>,
     <<"very">>,
     <<"context", Period, "data">>,
     <<"think", Period, "pros and cons">>,
     <<Period, "pros and cons", Period>>,
     <<"data", Period, "data", Period>>,
     <<"data", Period, "data", Period, "summary">>,
     <<"data", Period, Space, "data", Period, Space, "recommend">>}

\* The concurrent callers of analyze_text and the texts they pass.
MaxCallers == 2

Callers == 1..MaxCallers

ConcurrentTexts ==
    {<<"very">>,
     <<"context", Period, "data">>,
     <<Period, "pros and cons", Period>>}

IdleCall == [pc |-> "idle", text |-> <<>>, results |-> NoReport, i |-> 0]

\* The texts with backstory markers: at most MaxBackstoryPieces pieces, a
\* piece being nothing, a plain word, a marker, or two markers of different
\* patterns with spaces around them.
MaxBackstoryPieces == 6

BackstoryPhrases ==
    {<<>>, <<"data">>, <<"context">>, <<Space, "let me", Space, "context">>}

BackstoryTexts ==
    {JoinPieces(ps) :
        ps \in UNION {[1..k -> BackstoryPhrases] : k \in 1..MaxBackstoryPieces}}

\* The long texts: n words on one line, a single space between them, the
\* first a word of Openers and the others "data".
MaxWords == 302

Openers == {"data", "example", "therefore", "first", "context"}

LongText(opener, n) ==
    [i \in 1..(2 * n - 1) |->
        IF i = 1 THEN opener ELSE IF i % 2 = 0 THEN Space ELSE "data"]

LongTexts == {LongText(o, n) : o \in Openers, n \in 0..MaxWords}

---------------------------------------------------------------------------
\* The program: bot = Briefly(); analysis = bot.analyze_text(text);
\* bot.generate_improved_text(analysis).

Init ==
    /\ rules = Registry
    /\ pc = "idle"
    /\ report = NoReport
    /\ improved = <<>>
    /\ applied = <<>>
    /\ memo = [report |-> NoReport, call |-> 0]
    /\ ncalls = 0
    /\ calls = [c \in Callers |-> IdleCall]

\* analysis = bot.analyze_text(t)
AnalyzeText(t) ==
    /\ ncalls < MaxCalls
    /\ report' = analyze_text(rules, t)
    /\ ncalls' = ncalls + 1
    /\ pc' = "analyzed"
    /\ improved' = <<>>
    /\ applied' = <<>>
    /\ UNCHANGED <<rules, memo, calls>>

\* The first call on a fresh Briefly.
FirstAnalyzeText ==
    /\ pc = "idle"
    /\ \E t \in Texts : AnalyzeText(t)

\* The slip stores the text it returns in the report.
GenerateImprovedTextStoring ==
    /\ pc = "analyzed"
    /\ LET st == generate_improved_text(report)
       IN  /\ improved' = st.text
           /\ applied' = st.applied
           /\ report' = [report EXCEPT !.improved_text = st.text]
    /\ pc' = "improved"
    /\ UNCHANGED <<rules, memo, ncalls, calls>>

\* bot.generate_improved_text(analysis) on the report of the last call.
GenerateImprovedText ==
    /\ pc = "analyzed"
    /\ LET st == generate_improved_text(report)
       IN  /\ improved' = st.text
           /\ applied' = st.applied
    /\ pc' = "improved"
    /\ UNCHANGED <<rules, report, memo, ncalls, calls>>

Next == FirstAnalyzeText \/ GenerateImprovedText

Spec == Init /\ [][Next]_vars

\* Several analyze_text calls on one Briefly, interleaved rule by rule.  A
\* call holds its text, its own results dict and its place in the loop over
\* self.rules; self.rules is the one thing the calls share.
BeginCall(c) ==
    /\ calls[c].pc = "idle"
    /\ \E t \in ConcurrentTexts :
        calls' = [calls EXCEPT ![c] =
                    [pc |-> "loop", text |-> t, results |-> NewResults(t), i |-> 1]]
    /\ UNCHANGED <<rules, pc, report, improved, applied, memo, ncalls>>

\* The slip keeps the results dict on the Briefly: a step of one call writes
\* the dict of every call in its loop.
RuleStepShared(c) ==
    /\ calls[c].pc = "loop"
    /\ calls[c].i <= Len(rules)
    /\ calls' = [d \in Callers |->
                    IF d = c
                    THEN [calls[c] EXCEPT
                            !.results = AnalyzeRule(@, rules[calls[c].i], calls[c].text),
                            !.i = @ + 1]
                    ELSE IF calls[d].pc = "loop"
                    THEN [calls[d] EXCEPT
                            !.results = AnalyzeRule(@, rules[calls[c].i], calls[c].text)]
                    ELSE calls[d]]
    /\ UNCHANGED <<rules, pc, report, improved, applied, memo, ncalls>>

\* One pass of the loop body of a call.
RuleStep(c) ==
    /\ calls[c].pc = "loop"
    /\ calls[c].i <= Len(rules)
    /\ calls' = [calls EXCEPT
                    ![c].results = AnalyzeRule(@, rules[calls[c].i], calls[c].text),
                    ![c].i = @ + 1]
    /\ UNCHANGED <<rules, pc, report, improved, applied, memo, ncalls>>

\* return results
ReturnCall(c) ==
    /\ calls[c].pc = "loop"
    /\ calls[c].i > Len(rules)
    /\ calls' = [calls EXCEPT ![c].pc = "done"]
    /\ UNCHANGED <<rules, pc, report, improved, applied, memo, ncalls>>

NextConcurrent ==
    \E c \in Callers : BeginCall(c) \/ RuleStep(c) \/ ReturnCall(c)

SpecConcurrent == Init /\ [][NextConcurrent]_vars

\* One run on a text with backstory markers.
AnalyzeBackstoryText ==
    /\ pc = "idle"
    /\ \E t \in BackstoryTexts : AnalyzeText(t)

NextBackstory == AnalyzeBackstoryText \/ GenerateImprovedText

SpecBackstory == Init /\ [][NextBackstory]_vars

\* One run on a long text.
AnalyzeLongText ==
    /\ pc = "idle"
    /\ \E t \in LongTexts : AnalyzeText(t)

NextLong == AnalyzeLongText \/ GenerateImprovedText

SpecLong == Init /\ [][NextLong]_vars

\* Repeated calls on one Briefly: any call after any other, and a caller
\* that keeps the report of an earlier call with the number of that call.
AnotherAnalyzeText == \E t \in ProbeTexts : AnalyzeText(t)

KeepReport ==
    /\ pc # "idle"
    /\ memo' = [report |-> report, call |-> ncalls]
    /\ UNCHANGED <<rules, pc, report, improved, applied, ncalls, calls>>

NextCalls == AnotherAnalyzeText \/ GenerateImprovedText \/ KeepReport

SpecCalls == Init /\ [][NextCalls]_vars

---------------------------------------------------------------------------
\* What the claims speak of.

\* The result of a rule in a report, by name.
ResultOf(r, rule_name) ==
    r.analysis[CHOOSE i \in 1..Len(r.analysis) : r.analysis[i].rule_name = rule_name]

Failed(rule_name) == ~ResultOf(report, rule_name).passed

AllPassed == \A i \in 1..Len(report.analysis) : report.analysis[i].passed

\* C1: after every analyze_text call the report holds one result for each of
\* the 11 registered rules, in Registry order, and for every rule passed is
\* true if and only if its issues list is empty.
C1_PassedIffNoIssues ==
    pc # "idle" =>
        /\ Len(rules) = 11
        /\ Cardinality({rules[i].name : i \in 1..Len(rules)}) = 11
        /\ Len(report.analysis) = Len(rules)
        /\ \A i \in 1..Len(rules) :
            /\ report.analysis[i].rule_name = rules[i].name
            /\ report.analysis[i].passed <=> (report.analysis[i].issues = <<>>)

\* A report in which one rule has a single issue, another has two and a third
\* passed.
C1_Witness ==
    /\ pc = "analyzed"
    /\ \E i, j, k \in 1..Len(report.analysis) :
        /\ Len(report.analysis[i].issues) = 1
        /\ Len(report.analysis[j].issues) = 2
        /\ report.analysis[k].passed

\* The suggester outputs of exactly the rules that did not pass, in Registry
\* order.
RECURSIVE SuggestionsOfFailed(_, _)
SuggestionsOfFailed(r, i) ==
    IF i > Len(rules) THEN <<>>
    ELSE (IF ResultOf(r, rules[i].name).passed THEN <<>>
          ELSE Suggest(rules[i].name, r.original_text,
                       ResultOf(r, rules[i].name).issues))
         \o SuggestionsOfFailed(r, i + 1)

RECURSIVE SuggestionLengths(_, _)
SuggestionLengths(r, i) ==
    IF i > Len(rules) THEN 0
    ELSE (IF ResultOf(r, rules[i].name).passed THEN 0
          ELSE Len(Suggest(rules[i].name, r.original_text,
                           ResultOf(r, rules[i].name).issues)))
         + SuggestionLengths(r, i + 1)

\* C2: the suggestions of a report are the concatenation, in Registry order,
\* of the suggester outputs of exactly the rules whose passed is false, and
\* their number is the sum of those outputs' lengths.
C2_SuggestionsOfFailedRules ==
    pc # "idle" =>
        /\ report.suggestions = SuggestionsOfFailed(report, 1)
        /\ Len(report.suggestions) = SuggestionLengths(report, 1)

\* A report with failed rules that are not neighbours in the Registry, and a
\* passed rule between them.
C2_Witness ==
    /\ pc = "analyzed"
    /\ \E i, j, k \in 1..Len(report.analysis) :
        /\ i < j /\ j < k
        /\ ~report.analysis[i].passed
        /\ report.analysis[j].passed
        /\ ~report.analysis[k].passed
    /\ report.suggestions # <<>>

\* C3: a call of analyze_text returns the report an earlier call on the same
\* text returned, whatever calls came between.
C3_Deterministic ==
    (pc # "idle" /\ memo.call > 0
        /\ memo.report.original_text = report.original_text)
    => memo.report = report

\* The kept report is of a call at least two calls back, on the text of the
\* last call, and a rule failed.
C3_Witness ==
    /\ pc = "analyzed"
    /\ memo.call > 0
    /\ memo.call + 2 <= ncalls
    /\ memo.report.original_text = report.original_text
    /\ report.suggestions # <<>>

\* C4: generate_improved_text on a report in which every rule passed returns
\* the report's original_text.
C4_AllPassedUnchanged ==
    (pc = "improved" /\ AllPassed) => improved = report.original_text

\* Every rule passed on a text that the bottom-line repair would rewrite.
C4_Witness ==
    /\ pc = "improved"
    /\ AllPassed
    /\ _apply_bottom_line_first(report.original_text) # report.original_text

\* C5: generate_improved_text applies no repair but those of
\* bottom_line_first and clear_recommendations; when these two rules passed
\* it returns original_text, whichever other rules failed.
C5_OnlyTwoRepairs ==
    pc = "improved" =>
        /\ \A i \in 1..Len(applied) :
            applied[i].rule_name \in {"bottom_line_first", "clear_recommendations"}
        /\ (~Failed("bottom_line_first") /\ ~Failed("clear_recommendations"))
            => (improved = report.original_text /\ applied = <<>>)

\* Both rules passed, two other rules failed, and each repair would rewrite
\* the text.
C5_Witness ==
    /\ pc = "improved"
    /\ ~Failed("bottom_line_first")
    /\ ~Failed("clear_recommendations")
    /\ \E i, j \in 1..Len(report.analysis) :
        i # j /\ ~report.analysis[i].passed /\ ~report.analysis[j].passed
    /\ _apply_bottom_line_first(report.original_text) # report.original_text

BothFailed == Failed("clear_recommendations") /\ Failed("bottom_line_first")

\* C6 as stated: when both rules failed the sentence-move repair runs first
\* and the "Recommendation: " prefix is added to its output.
C6_BottomLineBeforePrefix ==
    (pc = "improved" /\ BothFailed) =>
        improved = _apply_clear_recommendations(
                       _apply_bottom_line_first(report.original_text))

\* C6, amended: when both rules failed the two repairs run in Registry order,
\* each on the output of the one before: first the clear_recommendations
\* repair on original_text, then the bottom_line_first repair on its output,
\* which is the text returned.
C6_PrefixBeforeBottomLine ==
    (pc = "improved" /\ BothFailed) =>
        /\ Len(applied) = 2
        /\ applied[1] =
             [rule_name |-> "clear_recommendations",
              input |-> report.original_text,
              output |-> _apply_clear_recommendations(report.original_text)]
        /\ applied[2] =
             [rule_name |-> "bottom_line_first",
              input |-> applied[1].output,
              output |-> _apply_bottom_line_first(applied[1].output)]
        /\ improved = applied[2].output

\* Both rules failed on a text for which the order of the repairs shows in
\* the result.
C6_Witness ==
    /\ pc = "improved"
    /\ BothFailed
    /\ improved # _apply_clear_recommendations(
                      _apply_bottom_line_first(report.original_text))

\* A sentence holds a conclusion marker when a conclusion pattern of the
\* checker or of the repair finds a match in it.
HoldsConclusionMarker(sentence) ==
    SearchAny(conclusion_indicators, sentence) \/ SearchAny(conclusion_patterns, sentence)

\* The text is three sentences, none of them blank: its pieces are three, or
\* four with nothing after the last period.
ThreeSentences(text) ==
    /\ Len(sentences_of(text)) = 3
    /\ \/ Len(split(text)) = 3
       \/ Len(split(text)) = 4 /\ split(text)[4] = <<>>

\* whole ends with part.
EndsWith(whole, part) ==
    /\ Len(part) <= Len(whole)
    /\ SubSeq(whole, Len(whole) - Len(part) + 1, Len(whole)) = part

\* The first sentence with index > 1 (counted from 0) that a pattern of the
\* repair matches, or 0 when there is none.
FirstLateConclusion(sentences) ==
    IF \E i \in 3..Len(sentences) : SearchAny(conclusion_patterns, sentences[i])
    THEN CHOOSE i \in 3..Len(sentences) :
            /\ SearchAny(conclusion_patterns, sentences[i])
            /\ \A j \in 3..(i - 1) : ~SearchAny(conclusion_patterns, sentences[j])
    ELSE 0

\* C7 as stated: for a text of 3 sentences in which only the 3rd holds a
\* conclusion marker, bottom_line_first reports an issue and
\* generate_improved_text returns the sentences in the order 0, 2, 1; and
\* whenever the repair runs it moves the first matching sentence with
\* index > 1 to index 1 and no other.
C7_ThirdSentenceMoved ==
    pc = "improved" =>
        /\ LET S == sentences_of(report.original_text)
               Out == sentences_of(improved)
           IN  (/\ ThreeSentences(report.original_text)
                /\ ~HoldsConclusionMarker(S[1])
                /\ ~HoldsConclusionMarker(S[2])
                /\ HoldsConclusionMarker(S[3]))
               => /\ Failed("bottom_line_first")
                  /\ Len(Out) = 3
                  /\ EndsWith(Out[1], S[1])
                  /\ Out[2] = S[3]
                  /\ Out[3] = S[2]
        /\ \A e \in 1..Len(applied) :
            applied[e].rule_name = "bottom_line_first" =>
                LET In == sentences_of(applied[e].input)
                    Out == sentences_of(applied[e].output)
                    i == FirstLateConclusion(In)
                IN  Out = IF i = 0 THEN In
                          ELSE <<In[1], In[i]>> \o SubSeq(In, 2, i - 1)
                                   \o SubSeq(In, i + 1, Len(In))

\* C8 as stated: when the bottom-line repair runs on a text of fewer than 3
\* sentences, the text it returns is its input, character for character.
C8_ShortTextUntouched ==
    pc = "improved" =>
        \A e \in 1..Len(applied) :
            (/\ applied[e].rule_name = "bottom_line_first"
             /\ Len(sentences_of(applied[e].input)) < 3)
            => applied[e].output = applied[e].input

\* The pieces of the first third, by count: piece i with 3 * i <= n.
MarkerInFirstThird(text) ==
    \E i \in 1..Len(split(text)) :
        /\ 3 * i <= Len(split(text))
        /\ SearchAny(conclusion_indicators, split(text)[i])

BottomLineIssues == ResultOf(report, "bottom_line_first").issues

\* C9 as stated: the checker reports exactly one issue whenever no sentence of
\* the first third holds a marker, however many sentences the text has, and
\* none when one does.
C9_OneIssueWhateverTheLength ==
    pc # "idle" =>
        Len(BottomLineIssues) =
            IF MarkerInFirstThird(report.original_text) THEN 0 ELSE 1

\* C9, amended: the checker reports exactly one issue whenever the text has at
\* least 3 period-delimited pieces and no piece of the first third holds a
\* marker; it reports none when one does, and none when the text has fewer
\* than 3 pieces; it never reports more than one.
C9_OneIssueFromThreePieces ==
    pc # "idle" =>
        /\ Len(BottomLineIssues) <= 1
        /\ Len(BottomLineIssues) = 1 <=>
            /\ Len(split(report.original_text)) >= 3
            /\ ~MarkerInFirstThird(report.original_text)

\* A text of at least 3 pieces with a marker, but none in the first third,
\* and one issue.
C9_Witness ==
    /\ pc = "analyzed"
    /\ Len(split(report.original_text)) >= 3
    /\ ~MarkerInFirstThird(report.original_text)
    /\ Search(conclusion_indicators[1], report.original_text)
    /\ Len(BottomLineIssues) = 1

\* C10 as stated: when clear_recommendations failed, its repair prepends
\* "Recommendation: " exactly when the checker's own pros/cons condition
\* holds (a pros/cons enumeration and no recommendation verb of the checker),
\* and otherwise returns the text unchanged.
C10_PrefixOnCheckerCondition ==
    (pc = "improved" /\ Failed("clear_recommendations")) =>
        /\ Len(applied) >= 1
        /\ applied[1].rule_name = "clear_recommendations"
        /\ applied[1].output =
             IF /\ ProsThenCons(applied[1].input)
                /\ ~Search(checker_recommendation_verbs, applied[1].input)
             THEN <<RecommendationColon, Space>> \o applied[1].input
             ELSE applied[1].input

\* The rule reported an issue with this message.
Reports(rule_name, msg) ==
    \E i \in 1..Len(ResultOf(report, rule_name).issues) :
        ResultOf(report, rule_name).issues[i].msg = msg

LacksContext ==
    Reports("adequate_context",
            "Long text may lack sufficient context or examples for reader comprehension")

LacksStructure ==
    Reports("logical_flow",
            "Long text lacks clear logical structure - consider adding transitions or organizing in numbered points")

LacksSpecifics ==
    Reports("super_specific_how",
            "Text lacks specific implementation details - consider adding 'how-to' elements")

Words == WordCount(report.original_text)

\* C11: the length-gated checks never fire at or below their thresholds: no
\* adequate_context issue at 300 words or fewer, no lacks-structure issue of
\* logical_flow at 150 or fewer, no lacks-specific-details issue of
\* super_specific_how at 100 or fewer; and for the empty text every rule
\* passes and suggestions is empty.
C11_GatedChecksQuietAtThreshold ==
    pc # "idle" =>
        /\ Words <= 300 => ~LacksContext
        /\ Words <= 150 => ~LacksStructure
        /\ Words <= 100 => ~LacksSpecifics
        /\ report.original_text = <<>> =>
              (AllPassed /\ report.suggestions = <<>>)

\* A text of exactly 300 words with no marker: the two checks with lower
\* thresholds fire and adequate_context does not.
C11_Witness ==
    /\ pc = "analyzed"
    /\ Words = 300
    /\ LacksSpecifics
    /\ LacksStructure
    /\ ~LacksContext
    /\ ~SearchAny(context_indicators, report.original_text)

NoSpecificMarker == ~SearchAny(specific_indicators, report.original_text)

\* C12 as stated: with no specific-content marker, a text of exactly 100
\* words gets the lacks-specific-details issue and one of 99 words does not.
C12_FiresAt100Words ==
    (pc # "idle" /\ NoSpecificMarker) =>
        /\ Words = 100 => LacksSpecifics
        /\ Words = 99 => ~LacksSpecifics

\* C12, amended: with no specific-content marker, the issue is reported
\* exactly when the text has more than 100 words: a text of 101 words gets
\* it, one of exactly 100 words does not, one of 99 does not.
C12_FiresAbove100Words ==
    (pc # "idle" /\ NoSpecificMarker) =>
        /\ LacksSpecifics <=> Words > 100
        /\ Words = 101 => LacksSpecifics
        /\ Words = 100 => ~LacksSpecifics
        /\ Words = 99 => ~LacksSpecifics

\* A text of exactly 101 words with no specific-content marker, and the issue.
C12_Witness ==
    /\ pc = "analyzed"
    /\ Words = 101
    /\ NoSpecificMarker
    /\ LacksSpecifics

BackstoryIssues == ResultOf(report, "cut_backstory").issues

HoldsBackstoryMarker(sentence) == SearchAny(backstory_indicators, sentence)

\* The issues that a scan of the first n pieces of the text is to report: one
\* for each piece that holds a marker, in the order of the pieces, quoting
\* the piece.
BackstoryIssuesOfFirst(text, n) ==
    LET marked == SelectSeq([i \in 1..n |-> i],
                            LAMBDA i : HoldsBackstoryMarker(split(text)[i]))
    IN  [k \in 1..Len(marked) |->
            Issue("Potential backstory in opening",
                  Whole(strip(split(text)[marked[k]])), 0)]

\* C13 as stated: cut_backstory scans only the first third, by count, of the
\* period-delimited sentences; each issue quotes a sentence of that third, a
\* marker in a later sentence is never reported, and a scanned sentence
\* yields at most one issue, in sentence order.
C13_OnlyFirstThirdScanned ==
    pc # "idle" =>
        BackstoryIssues =
            BackstoryIssuesOfFirst(report.original_text,
                                   Len(split(report.original_text)) \div 3)

\* C13, amended: cut_backstory scans the first third, by count, of the
\* period-delimited pieces when the text has more than 3 pieces, and every
\* piece when it has 3 or fewer; each issue quotes a scanned piece, a marker
\* in a piece that is not scanned is never reported, and a scanned piece
\* yields at most one issue, in the order of the pieces.
C13_FirstThirdAboveThreePieces ==
    pc # "idle" =>
        LET n == Len(split(report.original_text))
        IN  BackstoryIssues =
                BackstoryIssuesOfFirst(report.original_text,
                                       IF n > 3 THEN n \div 3 ELSE n)

\* Six pieces: the two of the first third hold markers, the second of them
\* markers of two patterns, and a later piece holds a marker too; two issues.
C13_Witness ==
    /\ pc = "analyzed"
    /\ LET pieces == split(report.original_text)
       IN  /\ Len(pieces) = 6
           /\ pieces[1] = <<"context">>
           /\ pieces[2] = <<Space, "let me", Space, "context">>
           /\ \E i \in 3..6 : HoldsBackstoryMarker(pieces[i])
    /\ Len(BackstoryIssues) = 2

\* The results dict of a call running alone, after the first n rules.
SoloResults(text, n) ==
    AnalyzeLoop(NewResults(text), SubSeq(Registry, 1, n), 1, text)

\* A step changes the state of one call only, and never the Registry.
OneCallMoves ==
    /\ rules' = rules
    /\ \E c \in Callers : \A d \in Callers \ {c} : calls'[d] = calls[d]

\* C14: in any interleaving of analyze_text calls on one shared Registry each
\* call builds, and returns, the report of the same call running alone; no
\* step writes the Registry or the state of another call.
C14_CallsDoNotInterfere ==
    /\ [](/\ rules = Registry
          /\ \A c \in Callers :
                /\ calls[c].pc = "loop" =>
                      calls[c].results = SoloResults(calls[c].text, calls[c].i - 1)
                /\ calls[c].pc = "done" =>
                      calls[c].results = analyze_text(Registry, calls[c].text))
    /\ [][OneCallMoves]_vars

\* Two calls on different texts, both inside the loop at different rules,
\* each with suggestions already in its report, and one of them past rules
\* the other has yet to run.
C14_Witness ==
    /\ calls[1].pc = "loop"
    /\ calls[2].pc = "loop"
    /\ calls[1].text # calls[2].text
    /\ 1 < calls[1].i
    /\ calls[1].i < calls[2].i
    /\ calls[1].results.suggestions # <<>>
    /\ calls[2].results.suggestions # <<>>

\* seq without its i-th element.
Without(seq, i) == SubSeq(seq, 1, i - 1) \o SubSeq(seq, i + 1, Len(seq))

Occurrences(seq, x) == Cardinality({i \in 1..Len(seq) : seq[i] = x})

\* out holds the sentences of in, the first one in its place, and at most one
\* of them at another place among the others, which keep their order.
PermutesOneSentence(in, out) ==
    /\ Len(out) = Len(in)
    /\ \A i \in 1..Len(in) : Occurrences(out, in[i]) = Occurrences(in, in[i])
    /\ in # <<>> => out[1] = in[1]
    /\ \/ out = in
       \/ \E i, j \in 1..Len(in) :
            /\ in[i] = out[j]
            /\ Without(in, i) = Without(out, j)

C16_ImprovedTextIsOriginal ==
    /\ [](pc # "idle" =>
            /\ report.improved_text = report.original_text
            /\ pc = "improved" =>
                  report = analyze_text(Registry, report.original_text))
    /\ [][pc' = "improved" => report' = report]_vars

\* generate_improved_text returned another text than original_text, and the
\* report still holds original_text as improved_text.
C16_Witness ==
    /\ pc = "improved"
    /\ improved # report.original_text
    /\ ~AllPassed
    /\ report.improved_text = report.original_text

====
